---- MODULE Spec2Model ----
(***************************************************************************)
(* Threshold study of the notebook's last cells: the application tables,   *)
(* the classifier scores and mass columns derived from them, the threshold *)
(* slider, and plot_interactive_cut, which the slider calls on every move. *)
(*                                                                         *)
(* Numbers.  A score or a threshold is an integer s standing for the real  *)
(* s / Scale.  A ratio of two lengths is kept exactly, in lowest terms, as *)
(* [num, den].  The radicand of the sensitivity is kept exactly as         *)
(* [whole, tiny], standing for whole + tiny * 10^-EpsExp.  Floating-point  *)
(* rounding of the quotients is not modelled.                              *)
(***************************************************************************)
EXTENDS Integers, Sequences, FiniteSets

VARIABLES
    app_signal_data,      \* filtered application table of true-signal events
    app_background_data,  \* filtered application table of true-background events
    signal_probs,         \* class-1 probability of each signal row
    background_probs,     \* class-1 probability of each background row
    mass_signal,          \* mass column of the signal table
    mass_background,      \* mass column of the background table
    threshold,            \* value of threshold_slider
    called_with,          \* the argument threshold of the last call
    mass_signal_cut,      \* masses of the signal events passing the cut (plotted)
    mass_background_cut,  \* masses of the background events passing the cut (plotted)
    signal_efficiency,    \* shown in the figure text
    background_rejection, \* shown in the figure text
    sensitivity,          \* shown in the figure text
    error,                \* exception raised by the last call, or "none"
    first_shown,          \* record of what the first display of the widget showed
    slider_moved,         \* record of whether the slider has been moved since
    rebound               \* record of whether the score arrays were bound anew
                          \* after the last call

vars == <<app_signal_data, app_background_data, signal_probs, background_probs,
          mass_signal, mass_background, threshold, called_with, mass_signal_cut,
          mass_background_cut, signal_efficiency, background_rejection,
          sensitivity, error, first_shown, slider_moved, rebound>>

----------------------------------------------------------------------------
(* Bounds of the model *)

MaxEvents == 2     \* rows per application table
HalfScale == 1     \* grid points per half unit of score

RebindBackgroundRows == 1   \* rows of the background table where the
                            \* score arrays are bound anew (SpecRebind)

(* Program constants *)

EpsExp == 10       \* the additive constant of the sensitivity is 10^-EpsExp

Scale == 2 * HalfScale
Scores == 0 .. Scale            \* predict_proba yields values in [0, 1]
SliderValues == 0 .. Scale      \* FloatSlider(min=0.0, max=1.0)
SliderDefault == HalfScale      \* FloatSlider(value=0.5)

\* Zp_M_beforeFit of row i, in tenths of a GeV, inside the background mass
\* window (4.5, 5.5).  The rows of a table carry pairwise distinct masses, so
\* that a selected mass identifies the row it was selected from.
MassOfRow(i) == 45 + i

\* a filtered table whose rows have the given scores
Table(scores) == [i \in 1 .. Len(scores) |-> [score |-> scores[i], mass |-> MassOfRow(i)]]

SeqsUpTo(S, n) == UNION {[1 .. k -> S] : k \in 0 .. n}

----------------------------------------------------------------------------
(* Exact arithmetic *)

RECURSIVE GCD(_, _)
GCD(a, b) == IF b = 0 THEN a ELSE GCD(b, a % b)

\* no value: the expression raised, or the call did not reach the statement
NoValue == [num |-> 0, den |-> 0]

\* a / b of two ints, a >= 0 and b >= 0, in lowest terms; b = 0 raises
\* ZeroDivisionError
TrueDiv(a, b) ==
    IF b = 0 THEN NoValue
    ELSE LET g == GCD(a, b) IN [num |-> a \div g, den |-> b \div g]

\* the int 0 of the else branches
IntZero == [num |-> 0, den |-> 1]

\* q - 1: the operands of the subtraction exchanged
MinusOne(q) == IF q = NoValue THEN NoValue ELSE [num |-> q.num - q.den, den |-> q.den]

\* 1 - q
OneMinus(q) == IF q = NoValue THEN NoValue ELSE [num |-> q.den - q.num, den |-> q.den]

----------------------------------------------------------------------------
(* plot_interactive_cut, statement by statement *)

\* probs >= threshold: the boundary counted as passing
PassInclusive(probs, t) == [i \in 1 .. Len(probs) |-> probs[i] >= t]

\* probs < threshold: the comparison turned around
PassBelow(probs, t) == [i \in 1 .. Len(probs) |-> probs[i] < t]

\* probs > threshold: the element-wise mask
Pass(probs, t) == [i \in 1 .. Len(probs) |-> probs[i] > t]

\* series[~mask]: the entries at the positions where the mask is false
RECURSIVE MaskSelectInverted(_, _)
MaskSelectInverted(series, mask) ==
    IF series = <<>> THEN <<>>
    ELSE IF mask[1] THEN MaskSelectInverted(Tail(series), Tail(mask))
         ELSE <<series[1]>> \o MaskSelectInverted(Tail(series), Tail(mask))

\* series[mask] for a boolean array mask of the same length: the entries at
\* the positions where the mask is true, in order
RECURSIVE MaskSelect(_, _)
MaskSelect(series, mask) ==
    IF series = <<>> THEN <<>>
    ELSE IF mask[1] THEN <<series[1]>> \o MaskSelect(Tail(series), Tail(mask))
         ELSE MaskSelect(Tail(series), Tail(mask))

\* len(cut) / len(all), the emptiness test left out
SignalEfficiencyUnguarded(cut, all) == TrueDiv(Len(cut), Len(all))

\* the percentage that the figure text shows, taken for the efficiency
SignalEfficiencyPercent(cut, all) ==
    IF Len(all) > 0 THEN TrueDiv(Len(cut) * 100, Len(all)) ELSE IntZero

\* len(cut) / len(all) if len(all) > 0 else 0
SignalEfficiency(cut, all) ==
    IF Len(all) > 0 THEN TrueDiv(Len(cut), Len(all)) ELSE IntZero

\* 1 - (len(cut) / len(all) if len(all) > 0 else 0): the conditional bound
\* tighter than the subtraction
BackgroundRejectionInner(cut, all) ==
    OneMinus(IF Len(all) > 0 THEN TrueDiv(Len(cut), Len(all)) ELSE IntZero)

\* len(cut) / len(all) if len(all) > 0 else 0: the "1 -" left out
BackgroundAcceptance(cut, all) ==
    IF Len(all) > 0 THEN TrueDiv(Len(cut), Len(all)) ELSE IntZero

\* 1 - len(cut) / len(all) if len(all) > 0 else 0
BackgroundRejection(cut, all) ==
    IF Len(all) > 0 THEN OneMinus(TrueDiv(Len(cut), Len(all))) ELSE IntZero

\* len(mass_background_cut) + 1: a whole event added in place of 1e-10
RadicandPlusOne(cut) == [whole |-> Len(cut) + 1, tiny |-> 0]

\* len(mass_background_cut): the additive constant left out
RadicandNoEps(cut) == [whole |-> Len(cut), tiny |-> 0]

\* len(mass_background_cut) + 1e-10
Radicand(cut) == [whole |-> Len(cut), tiny |-> 1]

\* 1 / sqrt(10^-EpsExp), a whole number as EpsExp is even
InvSqrtEps == 10 ^ (EpsExp \div 2)

\* eff / np.sqrt(r), kept as the pair of its operands.  numpy division yields
\* inf or nan for a zero divisor.  Where the root is rational (r is exactly
\* the additive constant) the quotient is also given in closed form.
Sensitivity(eff, r) ==
    IF r.whole = 0 /\ r.tiny = 0
    THEN [cls |-> IF eff.num = 0 THEN "nan" ELSE "inf", eff |-> eff,
          radicand |-> r, exact |-> NoValue]
    ELSE [cls |-> "finite", eff |-> eff, radicand |-> r,
          exact |-> IF r.whole = 0 /\ r.tiny = 1
                    THEN TrueDiv(eff.num * InvSqrtEps, eff.den)
                    ELSE NoValue]

NoSensitivity == [cls |-> "unset", eff |-> NoValue,
                  radicand |-> [whole |-> 0, tiny |-> 0], exact |-> NoValue]

\* the call with the rejection divided by len(mass_signal), the name of the
\* other mass array left in the copied line
EvaluateSharedLength(sp, bp, ms, mb, t) ==
    LET signal_pass == Pass(sp, t)
        background_pass == Pass(bp, t)
    IN  IF Len(signal_pass) # Len(ms) \/ Len(background_pass) # Len(mb)
        THEN [error |-> "IndexError",
              mass_signal_cut |-> <<>>, mass_background_cut |-> <<>>,
              signal_efficiency |-> NoValue, background_rejection |-> NoValue,
              sensitivity |-> NoSensitivity]
        ELSE LET ms_cut == MaskSelect(ms, signal_pass)
                 mb_cut == MaskSelect(mb, background_pass)
                 eff == SignalEfficiency(ms_cut, ms)
                 rej == BackgroundRejection(mb_cut, ms)
             IN  [error |-> "none",
                  mass_signal_cut |-> ms_cut, mass_background_cut |-> mb_cut,
                  signal_efficiency |-> eff, background_rejection |-> rej,
                  sensitivity |-> Sensitivity(eff, Radicand(mb_cut))]

\* the values the call leaves behind, given the globals it reads
Evaluate(sp, bp, ms, mb, t) ==
    LET signal_pass == Pass(sp, t)
        background_pass == Pass(bp, t)
    IN  IF Len(signal_pass) # Len(ms) \/ Len(background_pass) # Len(mb)
        THEN [error |-> "IndexError",
              mass_signal_cut |-> <<>>, mass_background_cut |-> <<>>,
              signal_efficiency |-> NoValue, background_rejection |-> NoValue,
              sensitivity |-> NoSensitivity]
        ELSE LET ms_cut == MaskSelect(ms, signal_pass)
                 mb_cut == MaskSelect(mb, background_pass)
                 eff == SignalEfficiency(ms_cut, ms)
                 rej == BackgroundRejection(mb_cut, mb)
             IN  IF eff = NoValue
                 THEN [error |-> "ZeroDivisionError",
                       mass_signal_cut |-> ms_cut, mass_background_cut |-> mb_cut,
                       signal_efficiency |-> NoValue, background_rejection |-> NoValue,
                       sensitivity |-> NoSensitivity]
                 ELSE IF rej = NoValue
                 THEN [error |-> "ZeroDivisionError",
                       mass_signal_cut |-> ms_cut, mass_background_cut |-> mb_cut,
                       signal_efficiency |-> eff, background_rejection |-> NoValue,
                       sensitivity |-> NoSensitivity]
                 ELSE [error |-> "none",
                       mass_signal_cut |-> ms_cut, mass_background_cut |-> mb_cut,
                       signal_efficiency |-> eff, background_rejection |-> rej,
                       sensitivity |-> Sensitivity(eff, Radicand(mb_cut))]

----------------------------------------------------------------------------
(* The session *)

\* the column with one row more: the mass taken from the table before the
\* selection of its rows
ColumnBeforeFilter(table, name) ==
    IF name = "mass"
    THEN [i \in 1 .. Len(table) + 1 |-> MassOfRow(i)]
    ELSE [i \in 1 .. Len(table) |-> table[i][name]]

Column(table, name) == [i \in 1 .. Len(table) |-> table[i][name]]

Shown(r) == [threshold |-> SliderDefault,
             signal_efficiency |-> r.signal_efficiency,
             background_rejection |-> r.background_rejection,
             sensitivity |-> r.sensitivity,
             error |-> r.error]

\* All cells have run once: the tables are loaded and filtered, the scores
\* and the mass columns are taken from them, and the widget has been
\* displayed, which calls plot_interactive_cut with the slider's default.
Init ==
    /\ app_signal_data \in {Table(s) : s \in SeqsUpTo(Scores, MaxEvents)}
    /\ app_background_data \in {Table(s) : s \in SeqsUpTo(Scores, MaxEvents)}
    /\ signal_probs = Column(app_signal_data, "score")
    /\ background_probs = Column(app_background_data, "score")
    /\ mass_signal = Column(app_signal_data, "mass")
    /\ mass_background = Column(app_background_data, "mass")
    /\ threshold = SliderDefault
    /\ called_with = SliderDefault
    /\ LET r == Evaluate(signal_probs, background_probs, mass_signal,
                         mass_background, SliderDefault)
       IN  /\ mass_signal_cut = r.mass_signal_cut
           /\ mass_background_cut = r.mass_background_cut
           /\ signal_efficiency = r.signal_efficiency
           /\ background_rejection = r.background_rejection
           /\ sensitivity = r.sensitivity
           /\ error = r.error
           /\ first_shown = Shown(r)
    /\ slider_moved = FALSE
    /\ rebound = FALSE

\* one call in which the selection is assigned to the global mass_signal
PlotInteractiveCutInPlace(t) ==
    LET r == Evaluate(signal_probs, background_probs, mass_signal,
                      mass_background, t)
    IN  /\ mass_signal_cut' = r.mass_signal_cut
        /\ mass_background_cut' = r.mass_background_cut
        /\ signal_efficiency' = r.signal_efficiency
        /\ background_rejection' = r.background_rejection
        /\ sensitivity' = r.sensitivity
        /\ error' = r.error
        /\ rebound' = FALSE
        /\ called_with' = t
        /\ mass_signal' = r.mass_signal_cut
        /\ UNCHANGED <<app_signal_data, app_background_data, signal_probs,
                       background_probs, mass_background, first_shown>>

\* one call in which the selection is assigned to the global signal_probs
PlotInteractiveCutFiltersScores(t) ==
    LET r == Evaluate(signal_probs, background_probs, mass_signal,
                      mass_background, t)
    IN  /\ mass_signal_cut' = r.mass_signal_cut
        /\ mass_background_cut' = r.mass_background_cut
        /\ signal_efficiency' = r.signal_efficiency
        /\ background_rejection' = r.background_rejection
        /\ sensitivity' = r.sensitivity
        /\ error' = r.error
        /\ rebound' = FALSE
        /\ called_with' = t
        /\ signal_probs' = MaskSelect(signal_probs, Pass(signal_probs, t))
        /\ UNCHANGED <<app_signal_data, app_background_data, mass_signal,
                       background_probs, mass_background, first_shown>>

\* one call that works on the score arrays as they were first bound, as if
\* the function had kept its own copies of them
PlotInteractiveCutCaptured(t) ==
    LET r == Evaluate(Column(app_signal_data, "score"),
                      Column(app_background_data, "score"),
                      mass_signal, mass_background, t)
    IN  /\ mass_signal_cut' = r.mass_signal_cut
        /\ mass_background_cut' = r.mass_background_cut
        /\ signal_efficiency' = r.signal_efficiency
        /\ background_rejection' = r.background_rejection
        /\ sensitivity' = r.sensitivity
        /\ error' = r.error
        /\ rebound' = FALSE
        /\ called_with' = t
        /\ UNCHANGED <<app_signal_data, app_background_data, signal_probs,
                       background_probs, mass_signal, mass_background,
                       first_shown>>

\* one call plot_interactive_cut(t): reads the globals, binds only locals
PlotInteractiveCut(t) ==
    LET r == Evaluate(signal_probs, background_probs, mass_signal,
                      mass_background, t)
    IN  /\ mass_signal_cut' = r.mass_signal_cut
        /\ mass_background_cut' = r.mass_background_cut
        /\ signal_efficiency' = r.signal_efficiency
        /\ background_rejection' = r.background_rejection
        /\ sensitivity' = r.sensitivity
        /\ error' = r.error
        /\ rebound' = FALSE
        /\ called_with' = t
        /\ UNCHANGED <<app_signal_data, app_background_data, signal_probs,
                       background_probs, mass_signal, mass_background,
                       first_shown>>

\* the user moves the slider to another value: the observer calls the function
SliderMove(t) ==
    /\ t # threshold
    /\ threshold' = t
    /\ slider_moved' = TRUE
    /\ PlotInteractiveCut(t)

\* the widget is displayed again: the function is called with the current value
Redisplay ==
    /\ UNCHANGED <<threshold, slider_moved>>
    /\ PlotInteractiveCut(threshold)

Next ==
    \/ \E t \in SliderValues : SliderMove(t)
    \/ Redisplay

Spec == Init /\ [][Next]_vars

----------------------------------------------------------------------------
(* The session with the prediction cells run again *)

\* the classifier stored in mlp_model.pkl when the cells first ran, and
\* another one stored there later
Classifiers == {"first", "other"}

\* mlp.predict_proba(X)[:, 1] for the rows of a table: the first classifier
\* gives the scores the rows were drawn with, the other one the mirrored scores
PredictProba(c, table) ==
    [i \in 1 .. Len(table) |->
        IF c = "first" THEN table[i].score ELSE Scale - table[i].score]

\* the cells from joblib.load to predict_proba are run again: the globals
\* signal_probs and background_probs are bound to new arrays; nothing is
\* called, the figure stays as it is
RerunPredict(c) ==
    /\ signal_probs' = PredictProba(c, app_signal_data)
    /\ background_probs' = PredictProba(c, app_background_data)
    /\ rebound' = TRUE
    /\ UNCHANGED <<app_signal_data, app_background_data, mass_signal,
                   mass_background, threshold, called_with, mass_signal_cut,
                   mass_background_cut, signal_efficiency,
                   background_rejection, sensitivity, error, first_shown,
                   slider_moved>>

InitRebind ==
    /\ Init
    /\ Len(app_background_data) <= RebindBackgroundRows

NextRebind ==
    \/ Next
    \/ \E c \in Classifiers : RerunPredict(c)

SpecRebind == InitRebind /\ [][NextRebind]_vars

----------------------------------------------------------------------------
(* The session with the function called from a cell *)

\* arguments of the calls made from a cell: the grid, one step below 0 and
\* one step above 1
DirectValues == -1 .. Scale + 1

\* plot_interactive_cut(t) is called from a cell: the slider is not touched
DirectCall(t) ==
    /\ UNCHANGED <<threshold, slider_moved>>
    /\ PlotInteractiveCut(t)

NextDirect ==
    \/ \E t \in DirectValues : DirectCall(t)
    \/ Redisplay

SpecDirect == Init /\ [][NextDirect]_vars

----------------------------------------------------------------------------
(* The session on one pair of score arrays, scores and slider in hundredths *)

SliderSteps == 100      \* FloatSlider(min=0.0, max=1.0, step=0.01)

ExampleSignalScores == <<90, 80, 40, 20>>
ExampleBackgroundScores == <<70, 30, 10, 5>>

InitExample ==
    /\ app_signal_data = Table(ExampleSignalScores)
    /\ app_background_data = Table(ExampleBackgroundScores)
    /\ signal_probs = Column(app_signal_data, "score")
    /\ background_probs = Column(app_background_data, "score")
    /\ mass_signal = Column(app_signal_data, "mass")
    /\ mass_background = Column(app_background_data, "mass")
    /\ threshold = SliderSteps \div 2
    /\ called_with = SliderSteps \div 2
    /\ LET r == Evaluate(signal_probs, background_probs, mass_signal,
                         mass_background, SliderSteps \div 2)
       IN  /\ mass_signal_cut = r.mass_signal_cut
           /\ mass_background_cut = r.mass_background_cut
           /\ signal_efficiency = r.signal_efficiency
           /\ background_rejection = r.background_rejection
           /\ sensitivity = r.sensitivity
           /\ error = r.error
           /\ first_shown = [Shown(r) EXCEPT !.threshold = SliderSteps \div 2]
    /\ slider_moved = FALSE
    /\ rebound = FALSE

NextExample ==
    \/ \E t \in 0 .. SliderSteps : SliderMove(t)
    \/ Redisplay

SpecExample == InitExample /\ [][NextExample]_vars

----------------------------------------------------------------------------
(* Properties *)

\* number of scores strictly greater than t
PassCount(scores, t) == Cardinality({i \in 1 .. Len(scores) : scores[i] > t})

AllPositive(scores) == \A i \in 1 .. Len(scores) : scores[i] > 0

IsZero(q) == q.den > 0 /\ q.num = 0
IsOne(q) == q.den > 0 /\ q.num = q.den
InUnit(q) == q.den > 0 /\ 0 <= q.num /\ q.num <= q.den

\* C1: signal_efficiency is (signal scores strictly above the threshold) /
\* (signal scores) when the signal set is non-empty, and 0 when it is empty.
C1_SignalEfficiency ==
    /\ error = "none"
    /\ IF Len(signal_probs) > 0
       THEN /\ signal_efficiency.den > 0
            /\ signal_efficiency.num * Len(signal_probs)
                 = PassCount(signal_probs, threshold) * signal_efficiency.den
       ELSE IsZero(signal_efficiency)

C1_Witness ==
    /\ slider_moved
    /\ Len(signal_probs) = 2
    /\ PassCount(signal_probs, threshold) = 1
    /\ signal_efficiency = [num |-> 1, den |-> 2]

\* C2: background_rejection is 1 - (background scores strictly above the
\* threshold) / (background scores), the fraction of background events not
\* above the threshold, when the background set is non-empty, and 0 when it
\* is empty.
C2_BackgroundRejection ==
    /\ error = "none"
    /\ IF Len(background_probs) > 0
       THEN /\ background_rejection.den > 0
            /\ background_rejection.num * Len(background_probs)
                 = (Len(background_probs) - PassCount(background_probs, threshold))
                     * background_rejection.den
       ELSE IsZero(background_rejection)

C2_Witness ==
    /\ slider_moved
    /\ Len(background_probs) = 2
    /\ PassCount(background_probs, threshold) = 1
    /\ background_rejection = [num |-> 1, den |-> 2]

\* C3: for score sets empty or not, of equal or different lengths, and every
\* threshold, signal_efficiency and background_rejection lie in [0, 1].
C3_UnitInterval ==
    /\ error = "none"
    /\ InUnit(signal_efficiency)
    /\ InUnit(background_rejection)

C3_Witness ==
    /\ slider_moved
    /\ Len(signal_probs) = 1
    /\ Len(background_probs) = 2
    /\ PassCount(signal_probs, threshold) = 1
    /\ PassCount(background_probs, threshold) = 2
    /\ IsOne(signal_efficiency)
    /\ IsZero(background_rejection)

\* C4: with the signal set, the background set or both empty, the call
\* raises nothing, gives 0 for the efficiency/rejection of each empty set,
\* and still gives a sensitivity.
C4_EmptySets ==
    /\ signal_probs = <<>> => error = "none" /\ IsZero(signal_efficiency)
    /\ background_probs = <<>> => error = "none" /\ IsZero(background_rejection)
    /\ (signal_probs = <<>> \/ background_probs = <<>>) => sensitivity.cls = "finite"

C4_Witness ==
    /\ slider_moved
    /\ signal_probs = <<>>
    /\ background_probs = <<>>
    /\ error = "none"
    /\ sensitivity.cls = "finite"

\* C5: sensitivity is signal_efficiency / sqrt(background_pass_count + eps),
\* background_pass_count the number of background scores strictly above the
\* threshold and eps = 1e-10.
C5_Sensitivity ==
    /\ error = "none"
    /\ sensitivity.cls = "finite"
    /\ sensitivity.eff = signal_efficiency
    /\ sensitivity.radicand.whole = PassCount(background_probs, threshold)
    /\ sensitivity.radicand.tiny = 1
    /\ EpsExp = 10

C5_Witness ==
    /\ slider_moved
    /\ PassCount(background_probs, threshold) = 1
    /\ Len(background_probs) = 2
    /\ signal_efficiency = [num |-> 1, den |-> 2]
    /\ sensitivity.radicand = [whole |-> 1, tiny |-> 1]

\* C6: when no background event passes the threshold (an empty background
\* set included) the divisor of the sensitivity is sqrt(eps) > 0 and the
\* sensitivity is defined and finite: signal_efficiency * 10^5.
C6_NoDivisionByZero ==
    PassCount(background_probs, threshold) = 0 =>
        /\ error = "none"
        /\ sensitivity.cls = "finite"
        /\ sensitivity.radicand.whole = 0
        /\ sensitivity.radicand.tiny > 0
        /\ sensitivity.exact.den > 0
        /\ sensitivity.exact.num * signal_efficiency.den
             = signal_efficiency.num * InvSqrtEps * sensitivity.exact.den

C6_Witness ==
    /\ slider_moved
    /\ background_probs = <<>>
    /\ signal_efficiency = [num |-> 1, den |-> 2]
    /\ sensitivity.exact = [num |-> 50000, den |-> 1]

\* C7: for fixed signal scores, a call at a threshold t2 >= t1 following a
\* call at t1 gives a signal_efficiency no greater than the one at t1.
C7_EfficiencyMonotone ==
    [][(threshold' >= threshold /\ signal_probs' = signal_probs) =>
         /\ error = "none" /\ error' = "none"
         /\ signal_efficiency'.num * signal_efficiency.den
              <= signal_efficiency.num * signal_efficiency'.den]_vars

C7_Witness ==
    /\ slider_moved
    /\ threshold > first_shown.threshold
    /\ Len(signal_probs) = 2
    /\ first_shown.signal_efficiency = [num |-> 1, den |-> 2]
    /\ IsZero(signal_efficiency)

\* C8 as stated: for any signal set whose scores are all > 0 (and at most
\* 1), the call at threshold 0 gives signal_efficiency 1 and the call at
\* threshold 1 gives signal_efficiency 0.
C8_Original ==
    AllPositive(signal_probs) =>
        /\ threshold = 0 => error = "none" /\ IsOne(signal_efficiency)
        /\ threshold = Scale => error = "none" /\ IsZero(signal_efficiency)

\* C8 as amended: for any non-empty signal set whose scores are all > 0 the
\* call at threshold 0 gives signal_efficiency 1; for any signal set, empty
\* or not, the call at threshold 1 gives signal_efficiency 0.
C8_Amended ==
    /\ (threshold = 0 /\ signal_probs # <<>> /\ AllPositive(signal_probs)) =>
           error = "none" /\ IsOne(signal_efficiency)
    /\ threshold = Scale => error = "none" /\ IsZero(signal_efficiency)

C8_Witness ==
    /\ slider_moved
    /\ threshold = 0
    /\ Len(signal_probs) = 2
    /\ AllPositive(signal_probs)
    /\ \E i \in 1 .. Len(signal_probs) : signal_probs[i] = Scale
    /\ IsOne(signal_efficiency)

\* C9 as stated: for any background set whose scores are all > 0 (and at
\* most 1), the call at threshold 0 gives background_rejection 0 and the call
\* at threshold 1 gives background_rejection 1.
C9_Original ==
    AllPositive(background_probs) =>
        /\ threshold = 0 => error = "none" /\ IsZero(background_rejection)
        /\ threshold = Scale => error = "none" /\ IsOne(background_rejection)

\* C9 as amended: for any background set whose scores are all > 0 the call
\* at threshold 0 gives background_rejection 0; for any non-empty background
\* set the call at threshold 1 gives background_rejection 1.
C9_Amended ==
    /\ (threshold = 0 /\ AllPositive(background_probs)) =>
           error = "none" /\ IsZero(background_rejection)
    /\ (threshold = Scale /\ background_probs # <<>>) =>
           error = "none" /\ IsOne(background_rejection)

C9_Witness ==
    /\ slider_moved
    /\ threshold = Scale
    /\ Len(background_probs) = 2
    /\ \E i \in 1 .. Len(background_probs) : background_probs[i] = Scale
    /\ IsOne(background_rejection)

\* C10: whenever the slider is back at the value of the first display, after
\* any number of calls at other thresholds, the metrics are those of the
\* first display.
C10_SameInputsSameResult ==
    threshold = first_shown.threshold =>
        [threshold |-> threshold,
         signal_efficiency |-> signal_efficiency,
         background_rejection |-> background_rejection,
         sensitivity |-> sensitivity,
         error |-> error] = first_shown

C10_Witness ==
    /\ slider_moved
    /\ threshold = first_shown.threshold
    /\ signal_efficiency = [num |-> 1, den |-> 2]
    /\ background_rejection = [num |-> 1, den |-> 2]
    /\ first_shown.signal_efficiency = [num |-> 1, den |-> 2]

\* C11: no call changes its inputs: across every step the signal scores, the
\* background scores and the two mass arrays keep the same elements in the
\* same order.
C11_InputsUnchanged ==
    [][/\ signal_probs' = signal_probs
       /\ background_probs' = background_probs
       /\ mass_signal' = mass_signal
       /\ mass_background' = mass_background]_vars

C11_Witness ==
    /\ slider_moved
    /\ Len(mass_signal) = 2
    /\ Len(mass_signal_cut) = 1
    /\ Len(mass_background) = 2
    /\ Len(mass_background_cut) = 1
    /\ signal_probs = Column(app_signal_data, "score")
    /\ mass_signal = Column(app_signal_data, "mass")

C13_Original ==
    /\ called_with < 0 =>
           error = "none" /\ IsOne(signal_efficiency) /\ IsZero(background_rejection)
    /\ called_with > Scale =>
           error = "none" /\ IsZero(signal_efficiency) /\ IsOne(background_rejection)

\* C13 as amended: a call with a threshold outside [0, 1] raises nothing and
\* gives 0 or 1 for each metric; below 0 signal_efficiency is 1 for a non-empty
\* signal set and 0 for an empty one, and background_rejection is 0; above 1
\* signal_efficiency is 0, and background_rejection is 1 for a non-empty
\* background set and 0 for an empty one.
C13_Amended ==
    /\ called_with < 0 =>
           /\ error = "none"
           /\ IF signal_probs # <<>> THEN IsOne(signal_efficiency)
                                     ELSE IsZero(signal_efficiency)
           /\ IsZero(background_rejection)
    /\ called_with > Scale =>
           /\ error = "none"
           /\ IsZero(signal_efficiency)
           /\ IF background_probs # <<>> THEN IsOne(background_rejection)
                                         ELSE IsZero(background_rejection)

C13_Witness ==
    /\ called_with < 0
    /\ threshold = SliderDefault
    /\ Len(signal_probs) = 2
    /\ Len(background_probs) = 1
    /\ \E i \in 1 .. Len(signal_probs) : signal_probs[i] = 0
    /\ IsOne(signal_efficiency)
    /\ IsZero(background_rejection)

\* C14: for signal scores [0.9, 0.8, 0.4, 0.2], background scores
\* [0.7, 0.3, 0.1, 0.05] and threshold 0.5: 2 signal events pass,
\* signal_efficiency = 1/2, 1 background event passes, background_rejection
\* = 3/4, sensitivity = 0.5 / sqrt(1 + 1e-10).
C14_Example ==
    (/\ signal_probs = ExampleSignalScores
     /\ background_probs = ExampleBackgroundScores
     /\ called_with = 50) =>
        /\ error = "none"
        /\ Len(mass_signal_cut) = 2
        /\ signal_efficiency = [num |-> 1, den |-> 2]
        /\ Len(mass_background_cut) = 1
        /\ background_rejection = [num |-> 3, den |-> 4]
        /\ sensitivity.cls = "finite"
        /\ sensitivity.eff = [num |-> 1, den |-> 2]
        /\ sensitivity.radicand = [whole |-> 1, tiny |-> 1]
        /\ EpsExp = 10

C14_Witness ==
    /\ slider_moved
    /\ signal_probs = ExampleSignalScores
    /\ background_probs = ExampleBackgroundScores
    /\ called_with = 50
    /\ mass_signal_cut = <<MassOfRow(1), MassOfRow(2)>>
    /\ mass_background_cut = <<MassOfRow(1)>>

\* the masses in a selection
Selected(cut) == {cut[k] : k \in 1 .. Len(cut)}

\* C15: the pass condition is strict in both sets: an event whose score
\* equals the threshold is never among the passing ones, so a signal event at
\* the threshold keeps signal_efficiency below 1 and a background event at the
\* threshold keeps background_rejection above 0.
C15_StrictPass ==
    /\ error = "none"
    /\ \A i \in 1 .. Len(signal_probs) :
           signal_probs[i] = called_with =>
               /\ mass_signal[i] \notin Selected(mass_signal_cut)
               /\ signal_efficiency.num < signal_efficiency.den
    /\ \A i \in 1 .. Len(background_probs) :
           background_probs[i] = called_with =>
               /\ mass_background[i] \notin Selected(mass_background_cut)
               /\ background_rejection.num > 0

C15_Witness ==
    /\ slider_moved
    /\ Len(signal_probs) = 2
    /\ \E i \in 1 .. Len(signal_probs) : signal_probs[i] = called_with
    /\ \E i \in 1 .. Len(signal_probs) : signal_probs[i] > called_with
    /\ signal_efficiency = [num |-> 1, den |-> 2]
    /\ Len(background_probs) = 2
    /\ \E i \in 1 .. Len(background_probs) : background_probs[i] = called_with
    /\ \E i \in 1 .. Len(background_probs) : background_probs[i] > called_with
    /\ background_rejection = [num |-> 1, den |-> 2]

\* C17: for fixed background scores, a call at a threshold t2 >= t1 following
\* a call at t1 gives a background_rejection no smaller, and a number of
\* passing background events no greater, than the call at t1.
C17_RejectionMonotone ==
    [][(called_with' >= called_with /\ background_probs' = background_probs) =>
         /\ error = "none" /\ error' = "none"
         /\ background_rejection'.num * background_rejection.den
              >= background_rejection.num * background_rejection'.den
         /\ Len(mass_background_cut') <= Len(mass_background_cut)]_vars

C17_Witness ==
    /\ slider_moved
    /\ called_with > first_shown.threshold
    /\ Len(background_probs) = 2
    /\ first_shown.background_rejection = [num |-> 1, den |-> 2]
    /\ IsOne(background_rejection)
    /\ mass_background_cut = <<>>

\* score sets to put in the place of one of the two: the empty one, every
\* single score, and two longer than the set they replace
AltScoreSets(own) == SeqsUpTo(Scores, 1) \cup {own \o own, own \o <<Scale>>}

\* C16: the two sets are evaluated independently and may differ in length:
\* with the background set replaced by another, of another length, the call
\* gives the same signal_efficiency; with the signal set replaced, the same
\* background_rejection.
C16_Independent ==
    /\ error = "none"
    /\ \A alt \in AltScoreSets(background_probs) :
           LET r == Evaluate(signal_probs, alt, mass_signal,
                             Column(Table(alt), "mass"), called_with)
           IN  r.error = "none" /\ r.signal_efficiency = signal_efficiency
    /\ \A alt \in AltScoreSets(signal_probs) :
           LET r == Evaluate(alt, background_probs, Column(Table(alt), "mass"),
                             mass_background, called_with)
           IN  r.error = "none" /\ r.background_rejection = background_rejection

C16_Witness ==
    /\ slider_moved
    /\ Len(signal_probs) = 2
    /\ Len(background_probs) = 1
    /\ signal_efficiency = [num |-> 1, den |-> 2]
    /\ IsOne(background_rejection)

\* C18: the metrics are computed through the mass arrays: each mass array has
\* the length of its score array and the same rows in the same order, both
\* being columns of the same filtered table, so the selection holds the masses
\* of exactly the rows whose score is above the threshold and the metrics
\* equal count(score > threshold) / len(scores) and 1 minus it.
C18_MassRoute ==
    /\ error = "none"
    /\ Len(mass_signal) = Len(signal_probs)
    /\ Len(mass_background) = Len(background_probs)
    /\ Len(signal_probs) = Len(app_signal_data)
    /\ Len(background_probs) = Len(app_background_data)
    /\ \A i \in 1 .. Len(app_signal_data) :
           /\ mass_signal[i] = app_signal_data[i].mass
           /\ signal_probs[i] = app_signal_data[i].score
    /\ \A i \in 1 .. Len(app_background_data) :
           /\ mass_background[i] = app_background_data[i].mass
           /\ background_probs[i] = app_background_data[i].score
    /\ Selected(mass_signal_cut)
         = {app_signal_data[i].mass :
              i \in {j \in 1 .. Len(app_signal_data) :
                       app_signal_data[j].score > called_with}}
    /\ Selected(mass_background_cut)
         = {app_background_data[i].mass :
              i \in {j \in 1 .. Len(app_background_data) :
                       app_background_data[j].score > called_with}}
    /\ Len(mass_signal_cut) = PassCount(signal_probs, called_with)
    /\ Len(mass_background_cut) = PassCount(background_probs, called_with)
    /\ signal_efficiency.num * Len(signal_probs)
         = PassCount(signal_probs, called_with) * signal_efficiency.den
    /\ background_rejection.num * Len(background_probs)
         = (Len(background_probs) - PassCount(background_probs, called_with))
             * background_rejection.den

C18_Witness ==
    /\ slider_moved
    /\ Len(signal_probs) = 2
    /\ signal_probs[1] <= called_with
    /\ signal_probs[2] > called_with
    /\ mass_signal_cut = <<MassOfRow(2)>>
    /\ signal_efficiency = [num |-> 1, den |-> 2]
    /\ Len(background_probs) = 2
    /\ mass_background_cut = <<MassOfRow(1)>>

====
